---- MODULE Spec2Model ----
(***************************************************************************)
(* ViewabilityHelper (Libraries/CustomComponents/Lists/ViewabilityHelper.js) *)
(* as a state machine: the helper's fields, the host's timer queue and     *)
(* clock, and one action per public operation and per timer callback.      *)
(*                                                                         *)
(* Optional JavaScript values (undefined / null) are sequences of length   *)
(* at most one: <<>> is "absent", <<v>> is "present with value v".         *)
(***************************************************************************)
EXTENDS Integers, Sequences, FiniteSets, TLC

\* ------------------------------------------------------------------ bounds
MaxItems == 2        \* itemCount ranges up to MaxItems
MaxTime == 4         \* Date.now() ranges over 1..MaxTime
MaxHandles == 2      \* at most this many setTimeout calls in a run
GeomSpan == 22       \* an item's top ranges over -GeomSpan..GeomSpan in a direct call

\* ------------------------------------------------------------- input sets
Indices == 0 .. (MaxItems - 1)

KeyNames == <<"z", "a", "b", "c", "d", "e", "f">>

\* createViewToken as supplied by the caller: index -> key.  StableKeys is
\* the list as first rendered, PrependedKeys the list after one item was
\* inserted in front (every index shifts by one).
StableKeys == [i \in Indices |-> KeyNames[i + 2]]
PrependedKeys == [i \in Indices |-> KeyNames[i + 1]]
KeyFns == {StableKeys, PrependedKeys}

\* getFrameMetrics as supplied by the caller: index -> <<>> or <<frame>>.
\* Items are two pixels long and laid out one after the other.
Frame(o, l) == <<[offset |-> o, length |-> l]>>
MeasuredLayout == [i \in Indices |-> Frame(2 * i, 2)]
UnmeasuredHead == [i \in Indices |-> IF i = 0 THEN <<>> ELSE Frame(2 * i, 2)]
Layouts == {MeasuredLayout, UnmeasuredHead}

ItemCounts == {0, MaxItems - 1, MaxItems}
ScrollOffsets == {0, 1, 2}
ViewportHeights == {3}
RenderRanges ==
    {<<>>, <<[first |-> 0, last |-> 0]>>, <<[first |-> 1, last |-> MaxItems - 1]>>}

\* The update ticks: every item count, scroll offset and layout with stable
\* keys and no render range; the shifted keys over the full list; and every
\* render range over every item count and layout at rest.
Tick(itemCounts, scrollOffsets, layouts, keyFns, renderRanges) ==
    [itemCount : itemCounts, scrollOffset : scrollOffsets, viewportHeight : ViewportHeights,
     frames : layouts, keys : keyFns, renderRange : renderRanges]

Updates ==
    Tick(ItemCounts, ScrollOffsets, Layouts, {StableKeys}, {<<>>})
    \cup Tick({MaxItems}, ScrollOffsets, {MeasuredLayout}, {PrependedKeys}, {<<>>})
    \cup Tick(ItemCounts, {0}, Layouts, {StableKeys}, RenderRanges)

\* the update ticks of a list whose keys do not shift
TimedUpdates == {u \in Updates : u.keys = StableKeys}

Filters ==
    {<<>>} \cup
    {<<[minimumOffset |-> o, minimumElapsed |-> e]>> :
        o \in {<<>>, <<2>>}, e \in {<<>>, <<1>>}}

\* new ViewabilityHelper() with no argument, line 76
DefaultConfig ==
    [minimumViewTime |-> <<>>, minViewTime |-> <<>>,
     viewAreaCoveragePercentThreshold |-> <<0>>,
     itemVisiblePercentThreshold |-> <<>>,
     waitForInteraction |-> FALSE, scrollInteractionFilter |-> <<>>]

PlainConfig == [DefaultConfig EXCEPT !.viewAreaCoveragePercentThreshold = <<50>>]

\* The configuration objects a caller passes.  minimumViewTime is the
\* documented key (line 24); minViewTime is the key onUpdate reads (lines
\* 198, 204); a JavaScript object may carry either.
\*
\* Configs: the objects without the key onUpdate reads.  They vary the
\* thresholds, the documented view time with the interaction gate, and the
\* interaction filter with the gate.  No timer is ever scheduled for them.
Configs ==
    {DefaultConfig}
    \cup {[PlainConfig EXCEPT !.viewAreaCoveragePercentThreshold = a,
                              !.itemVisiblePercentThreshold = i] :
            a \in {<<>>, <<50>>}, i \in {<<>>, <<50>>}}
    \cup {[PlainConfig EXCEPT !.minimumViewTime = m, !.waitForInteraction = w] :
            m \in {<<>>, <<2>>}, w \in BOOLEAN}
    \cup {[PlainConfig EXCEPT !.waitForInteraction = w, !.scrollInteractionFilter = f] :
            w \in BOOLEAN, f \in Filters}

\* TimedConfigs: the objects that carry minViewTime, without the gate and with
\* the gate and its filter.
TimedConfigs ==
    {[PlainConfig EXCEPT !.minViewTime = <<2>>],
     [PlainConfig EXCEPT !.minViewTime = <<2>>, !.waitForInteraction = TRUE,
                         !.scrollInteractionFilter =
                             <<[minimumOffset |-> <<2>>, minimumElapsed |-> <<1>>]>>]}

\* The arguments of a direct call of _isViewable: the way computeViewableItems
\* calls it (lines 130-137), bottom is top + itemLength.
GeomTops == -GeomSpan .. GeomSpan
GeomLengths == {2, 40, 50}
GeomViewports == {3, 50}
GeomThresholds == {0, 1, 50, 57, 58, 59, 100}

\* The arguments of a direct call of computeViewableItems: lists of ScanItems
\* items of length 1 or 2 laid out one after the other from offset 0, each
\* item measured or not; every item count up to ScanItems; every render range
\* within the item count; scroll offsets from before the list to its end.
ScanItems == MaxItems + 2
ScanIndices == 0 .. (ScanItems - 1)

RECURSIVE offsetOf(_, _)
offsetOf(lengths, i) == IF i = 0 THEN 0 ELSE offsetOf(lengths, i - 1) + lengths[i - 1]

ContiguousLayouts ==
    {[i \in ScanIndices |->
         IF i \in measured THEN Frame(offsetOf(lengths, i), lengths[i]) ELSE <<>>] :
       lengths \in [ScanIndices -> {1, 2}], measured \in SUBSET ScanIndices}

ScanConfigs ==
    {DefaultConfig,
     [DefaultConfig EXCEPT !.viewAreaCoveragePercentThreshold = <<100>>],
     [DefaultConfig EXCEPT !.viewAreaCoveragePercentThreshold = <<>>,
                           !.itemVisiblePercentThreshold = <<50>>]}

ScanRanges(itemCount) ==
    {<<>>} \cup {<<[first |-> f, last |-> l]>> : f \in 0 .. (itemCount - 1),
                                               l \in 0 .. (itemCount - 1)}

ScanOffsets == -1 .. (2 * ScanItems)

\* ------------------------------------------------------------------ state
VARIABLES
    status,           \* "new", "ready" (constructor returned), "rejected" (it threw)
    config,           \* this._config
    hasInteracted,    \* this._hasInteracted
    lastUpdateTime,   \* this._lastUpdateTime
    timers,           \* this._timers: set of handles
    viewableIndices,  \* this._viewableIndices
    viewableItems,    \* this._viewableItems: Map in insertion order, as a sequence of tokens
    now,              \* Date.now()
    scheduled,        \* the host's pending setTimeout callbacks
    nextHandle,       \* the handle the next setTimeout returns
    emitted,          \* the onViewableItemsChanged calls made by the last step
    notified,         \* onViewableItemsChanged has been invoked at least once
    lastOp,           \* the last operation, its outcome and what it computed
    disposed,         \* dispose() has been called
    cancelled,        \* handles passed to clearTimeout
    since,            \* index -> time it entered viewableIndices (0: not in it)
    shown,            \* indices reported viewable since they entered viewableIndices
    brief,            \* an index was reported viewable and left in under minimumViewTime
    seenHead,         \* an onUpdate was made while getFrameMetrics(0) was present
    consumer,         \* the keys a consumer holds after applying every changed list
    probe             \* the last direct call of a pure method, with its result

vars == <<status, config, hasInteracted, lastUpdateTime, timers, viewableIndices,
          viewableItems, now, scheduled, nextHandle, emitted, notified, lastOp,
          disposed, cancelled, since, shown, brief, seenHead, consumer, probe>>

\* the fields of the helper and of its host and observers: all but probe
helperVars == <<status, config, hasInteracted, lastUpdateTime, timers, viewableIndices,
                viewableItems, now, scheduled, nextHandle, emitted, notified, lastOp,
                disposed, cancelled, since, shown, brief, seenHead, consumer>>

\* ---------------------------------------------------------------- helpers
Range(s) == {s[i] : i \in 1 .. Len(s)}

\* JavaScript truthiness of an optional number: undefined and 0 are falsy.
Truthy(opt) == opt # <<>> /\ opt[1] # 0

Max(a, b) == IF a >= b THEN a ELSE b
Min(a, b) == IF a <= b THEN a ELSE b

Op(name, outcome, scrollOffset) ==
    [name |-> name, outcome |-> outcome, scrollOffset |-> scrollOffset]

\* --------------------------------------------------- geometric test (251-283)
isEntirelyVisible(top, bottom, viewportHeight) ==
    top >= 0 /\ bottom <= viewportHeight /\ bottom > top

getPixelsVisible(top, bottom, viewportHeight) ==
    Max(0, Min(bottom, viewportHeight) - Max(top, 0))

\* 100 * (pixels / d) in IEEE doubles falls below the integer 100 * pixels / d.
\* Among 0 <= pixels <= d <= 64 this happens for one pair: 29 / 50 rounds to
\* 0.57999999999999996 and 100 times it to 57.99999999999999.  Everywhere else
\* in that range the double product is the exact quotient or lies above it by
\* less than the distance to the next integer.
roundsBelow(pixels, d) == pixels = 29 /\ d = 50

\* 100 * (pixels / d) >= threshold in IEEE doubles, for an integer threshold
\* and 0 <= pixels <= d <= 64.  For d = 0 the quotient is Infinity (pixels > 0)
\* or NaN (pixels = 0), and NaN >= x is false.
percentAtLeast(pixels, d, threshold) ==
    IF d = 0 THEN pixels > 0
    ELSE IF roundsBelow(pixels, d) THEN 100 * pixels > threshold * d
    ELSE 100 * pixels >= threshold * d

isViewable(viewAreaMode, viewablePercentThreshold, top, bottom, viewportHeight, itemLength) ==
    IF isEntirelyVisible(top, bottom, viewportHeight)
    THEN TRUE
    ELSE percentAtLeast(getPixelsVisible(top, bottom, viewportHeight),
                        IF viewAreaMode THEN viewportHeight ELSE itemLength,
                        viewablePercentThreshold)

\* ------------------------------------------- computeViewableItems (94-145)
getFrameMetrics(frames, idx) == IF idx \in DOMAIN frames THEN frames[idx] ELSE <<>>

viewAreaMode(cfg) == cfg.viewAreaCoveragePercentThreshold # <<>>

viewablePercentThreshold(cfg) ==
    IF viewAreaMode(cfg)
    THEN cfg.viewAreaCoveragePercentThreshold
    ELSE cfg.itemVisiblePercentThreshold

\* the invariant() of lines 106-110 passes
thresholdsValid(cfg) ==
    /\ viewablePercentThreshold(cfg) # <<>>
    /\ (cfg.itemVisiblePercentThreshold # <<>>) # (cfg.viewAreaCoveragePercentThreshold # <<>>)

\* renderRange || {first: 0, last: itemCount - 1}
rangeOf(itemCount, renderRange) ==
    IF renderRange # <<>> THEN renderRange[1] ELSE [first |-> 0, last |-> itemCount - 1]

\* a range check that lets last reach itemCount
renderRangeValidInclusive(itemCount, renderRange) ==
    rangeOf(itemCount, renderRange).last <= itemCount

\* the invariant() of lines 117-120 passes
renderRangeValid(itemCount, renderRange) == rangeOf(itemCount, renderRange).last < itemCount

\* computeViewableItems throws
computeThrows(cfg, itemCount, renderRange) ==
    \/ ~thresholdsValid(cfg)
    \/ itemCount # 0 /\ ~renderRangeValid(itemCount, renderRange)

\* a loop that ends at the first item without a frame
RECURSIVE scanStopsAtUnmeasured(_, _, _, _, _, _, _, _)
scanStopsAtUnmeasured(cfg, idx, last, firstVisible, acc, scrollOffset, viewportHeight, frames) ==
    IF idx > last THEN acc
    ELSE LET metrics == getFrameMetrics(frames, idx) IN
         IF metrics = <<>>
         THEN acc
         ELSE LET top == metrics[1].offset - scrollOffset
                  bottom == top + metrics[1].length
              IN  IF top < viewportHeight /\ bottom > 0
                  THEN scanStopsAtUnmeasured(
                            cfg, idx + 1, last, idx,
                            IF isViewable(viewAreaMode(cfg), viewablePercentThreshold(cfg)[1],
                                          top, bottom, viewportHeight, metrics[1].length)
                            THEN Append(acc, idx) ELSE acc,
                            scrollOffset, viewportHeight, frames)
                  ELSE IF firstVisible >= 0
                       THEN acc
                       ELSE scanStopsAtUnmeasured(cfg, idx + 1, last, firstVisible, acc,
                                                  scrollOffset, viewportHeight, frames)

\* the for loop of lines 121-143
RECURSIVE scan(_, _, _, _, _, _, _, _)
scan(cfg, idx, last, firstVisible, acc, scrollOffset, viewportHeight, frames) ==
    IF idx > last THEN acc
    ELSE LET metrics == getFrameMetrics(frames, idx) IN
         IF metrics = <<>>
         THEN scan(cfg, idx + 1, last, firstVisible, acc, scrollOffset, viewportHeight, frames)
         ELSE LET top == metrics[1].offset - scrollOffset
                  bottom == top + metrics[1].length
              IN  IF top < viewportHeight /\ bottom > 0
                  THEN scan(cfg, idx + 1, last, idx,
                            IF isViewable(viewAreaMode(cfg), viewablePercentThreshold(cfg)[1],
                                          top, bottom, viewportHeight, metrics[1].length)
                            THEN Append(acc, idx) ELSE acc,
                            scrollOffset, viewportHeight, frames)
                  ELSE IF firstVisible >= 0
                       THEN acc
                       ELSE scan(cfg, idx + 1, last, firstVisible, acc,
                                 scrollOffset, viewportHeight, frames)

\* the value computeViewableItems returns when it does not throw
computeViewableItems(cfg, itemCount, scrollOffset, viewportHeight, frames, renderRange) ==
    IF itemCount = 0 THEN <<>>
    ELSE scan(cfg, rangeOf(itemCount, renderRange).first, rangeOf(itemCount, renderRange).last,
              -1, <<>>, scrollOffset, viewportHeight, frames)

\* the indices the for loop passes to getFrameMetrics (line 122), in order
RECURSIVE scanLookups(_, _, _, _, _, _)
scanLookups(idx, last, firstVisible, scrollOffset, viewportHeight, frames) ==
    IF idx > last THEN <<>>
    ELSE LET metrics == getFrameMetrics(frames, idx) IN
         <<idx>> \o
         (IF metrics = <<>>
          THEN scanLookups(idx + 1, last, firstVisible, scrollOffset, viewportHeight, frames)
          ELSE LET top == metrics[1].offset - scrollOffset
                   bottom == top + metrics[1].length
               IN  IF top < viewportHeight /\ bottom > 0
                   THEN scanLookups(idx + 1, last, idx, scrollOffset, viewportHeight, frames)
                   ELSE IF firstVisible >= 0
                        THEN <<>>
                        ELSE scanLookups(idx + 1, last, firstVisible, scrollOffset,
                                         viewportHeight, frames))

\* the getFrameMetrics calls of one computeViewableItems call that does not throw
lookupsOf(itemCount, scrollOffset, viewportHeight, frames, renderRange) ==
    IF itemCount = 0 THEN <<>>
    ELSE scanLookups(rangeOf(itemCount, renderRange).first,
                     rangeOf(itemCount, renderRange).last,
                     -1, scrollOffset, viewportHeight, frames)

\* ------------------------------------------------- _onUpdateSync (219-247)
createViewToken(keys, ii, flag) == [key |-> keys[ii], index |-> ii, isViewable |-> flag]

hasKey(items, key) == \E i \in 1 .. Len(items) : items[i].key = key

\* Map.prototype.set: a new key is appended, a known key keeps its place
mapSet(items, token) ==
    IF hasKey(items, token.key)
    THEN [i \in 1 .. Len(items) |-> IF items[i].key = token.key THEN token ELSE items[i]]
    ELSE Append(items, token)

\* new Map(pairs)
RECURSIVE newMap(_, _)
newMap(tokens, acc) ==
    IF tokens = <<>> THEN acc ELSE newMap(Tail(tokens), mapSet(acc, Head(tokens)))

\* lines 221-223
stillViewable(viewableIndicesToCheck, current) ==
    SelectSeq(viewableIndicesToCheck, LAMBDA ii : ii \in Range(current))

\* lines 225-230
nextItemsOf(viewableIndicesToCheck, keys) ==
    newMap([n \in 1 .. Len(viewableIndicesToCheck) |->
                createViewToken(keys, viewableIndicesToCheck[n], TRUE)], <<>>)

\* a diff that re-emits the tokens that left as they were stored
changedOfUnflipped(prevItems, nextItems) ==
    SelectSeq(nextItems, LAMBDA t : ~hasKey(prevItems, t.key))
    \o SelectSeq(prevItems, LAMBDA t : ~hasKey(nextItems, t.key))

\* lines 232-242
changedOf(prevItems, nextItems) ==
    SelectSeq(nextItems, LAMBDA t : ~hasKey(prevItems, t.key))
    \o [n \in 1 .. Len(SelectSeq(prevItems, LAMBDA t : ~hasKey(nextItems, t.key))) |->
          [SelectSeq(prevItems, LAMBDA t : ~hasKey(nextItems, t.key))[n]
              EXCEPT !.isViewable = FALSE]]

\* a finalize that notifies whatever the change list holds
notifiesAlways(changed) == TRUE

\* lines 243-246: the callback is invoked
notifies(changed) == Len(changed) > 0

\* a finalize that notifies and leaves this._viewableItems as it was
onUpdateSyncUncommitted(viewableIndicesToCheck, current, prevItems, keys) ==
    LET nextItems == nextItemsOf(stillViewable(viewableIndicesToCheck, current), keys)
        changed == changedOf(prevItems, nextItems)
    IN  [items |-> prevItems,
         calls |-> IF notifies(changed)
                   THEN <<[viewableItems |-> nextItems, changed |-> changed]>>
                   ELSE <<>>]

\* the whole of _onUpdateSync: the new this._viewableItems and the calls made
onUpdateSync(viewableIndicesToCheck, current, prevItems, keys) ==
    LET nextItems == nextItemsOf(stillViewable(viewableIndicesToCheck, current), keys)
        changed == changedOf(prevItems, nextItems)
    IN  IF notifies(changed)
        THEN [items |-> nextItems,
              calls |-> <<[viewableItems |-> nextItems, changed |-> changed]>>]
        ELSE [items |-> prevItems, calls |-> <<>>]

\* -------------------------------------------------------- onUpdate (151-210)
\* a latch that takes the time of every update made with a measured first item
latchTimeAlways(updateTime, frames) ==
    IF getFrameMetrics(frames, 0) # <<>> THEN updateTime ELSE lastUpdateTime

\* a latch that does not look at the first item's frame
latchTimeUnmeasured(updateTime, frames) ==
    IF lastUpdateTime = 0 THEN updateTime ELSE lastUpdateTime

\* no latch at all
latchTimeNever(updateTime, frames) == lastUpdateTime

\* lines 161-164: this._lastUpdateTime after the first-frame latch
latchTime(updateTime, frames) ==
    IF lastUpdateTime = 0 /\ getFrameMetrics(frames, 0) # <<>>
    THEN updateTime
    ELSE lastUpdateTime

\* line 165
elapsedOf(latched, updateTime) == IF latched # 0 THEN updateTime - latched ELSE 0

\* a filter that is satisfied by either of its conditions
filterPassesEither(filter, scrollOffset, updateElapsed) ==
    IF filter # <<>>
    THEN \/ (filter[1].minimumOffset = <<>> \/ scrollOffset >= filter[1].minimumOffset[1])
         \/ (filter[1].minimumElapsed = <<>> \/ updateElapsed >= filter[1].minimumElapsed[1])
    ELSE TRUE

\* lines 168-175: the scroll counts as an interaction
filterPasses(filter, scrollOffset, updateElapsed) ==
    IF filter # <<>>
    THEN /\ (filter[1].minimumOffset = <<>> \/ scrollOffset >= filter[1].minimumOffset[1])
         /\ (filter[1].minimumElapsed = <<>> \/ updateElapsed >= filter[1].minimumElapsed[1])
    ELSE TRUE

\* a gate that follows the current scroll offset instead of latching
interactionAfterUnlatched(cfg, interacted, scrollOffset, updateElapsed) ==
    IF cfg.waitForInteraction
    THEN scrollOffset # 0 /\ filterPasses(cfg.scrollInteractionFilter, scrollOffset, updateElapsed)
    ELSE interacted

\* lines 166-176: this._hasInteracted after the gating block
interactionAfter(cfg, interacted, scrollOffset, updateElapsed) ==
    IF cfg.waitForInteraction /\ ~interacted /\ scrollOffset # 0
    THEN filterPasses(cfg.scrollInteractionFilter, scrollOffset, updateElapsed)
    ELSE interacted

\* an update that never returns before the scan
suppressedNever(cfg, interacted) == FALSE

\* lines 177-179: the update returns before the scan
suppressed(cfg, interacted) == cfg.waitForInteraction /\ ~interacted

\* a comparison of the two arrays by identity, which never holds
sameIndicesByIdentity(prev, next) == FALSE

\* lines 190-195: the no-op short-circuit is taken
sameIndices(prev, next) ==
    Len(prev) = Len(next) /\ \A ii \in 1 .. Len(prev) : prev[ii] = next[ii]

\* line 198: the finalize is deferred
debounced(cfg, updateElapsed) ==
    Truthy(cfg.minViewTime) /\ updateElapsed < cfg.minViewTime[1]

\* ------------------------------------------------------------- observers
\* the indices a step's notifications carry with isViewable = true
reportedViewable(calls) ==
    UNION {{t.index : t \in {u \in Range(calls[c].changed) : u.isViewable}} :
              c \in 1 .. Len(calls)}

\* since, shown and brief after a step that leaves this._viewableIndices at
\* newIndices and makes the given calls.  The dwell time is tracked when the
\* configuration carries the documented minimumViewTime.
observe(newIndices, calls) ==
    /\ since' = [i \in Indices |->
                   IF Truthy(config.minimumViewTime) /\ i \in Range(newIndices)
                   THEN (IF i \in Range(viewableIndices) THEN since[i] ELSE now)
                   ELSE 0]
    /\ shown' = IF Truthy(config.minimumViewTime)
                THEN (shown \cap Range(newIndices)) \cup reportedViewable(calls)
                ELSE {}
    /\ brief' = (brief \/
                 /\ Truthy(config.minimumViewTime)
                 /\ \E i \in (Range(viewableIndices) \ Range(newIndices)) :
                        i \in shown /\ now - since[i] < config.minimumViewTime[1])

\* the keys a consumer holds after applying one changed list in order: a key
\* flagged viewable is added, a key flagged not viewable is removed
RECURSIVE applyChanged(_, _, _)
applyChanged(held, changed, n) ==
    IF n > Len(changed) THEN held
    ELSE applyChanged(IF changed[n].isViewable THEN held \cup {changed[n].key}
                      ELSE held \ {changed[n].key},
                      changed, n + 1)

\* ... and after the calls of one step
RECURSIVE heard(_, _)
heard(held, calls) ==
    IF calls = <<>> THEN held
    ELSE heard(applyChanged(held, calls[1].changed, 1), Tail(calls))

\* ----------------------------------------------------------------- actions
Init ==
    /\ status = "new"
    /\ config = DefaultConfig
    /\ hasInteracted = FALSE
    /\ lastUpdateTime = 0
    /\ timers = {}
    /\ viewableIndices = <<>>
    /\ viewableItems = <<>>
    /\ now = 1
    /\ scheduled = {}
    /\ nextHandle = 1
    /\ emitted = <<>>
    /\ notified = FALSE
    /\ lastOp = Op("none", "none", 0)
    /\ disposed = FALSE
    /\ cancelled = {}
    /\ since = [i \in Indices |-> 0]
    /\ shown = {}
    /\ brief = FALSE
    /\ seenHead = FALSE
    /\ consumer = {}
    /\ probe = [method |-> "none"]

\* lines 77-80: the constructor's invariant() passes
constructorAccepts(cfg) == cfg.scrollInteractionFilter = <<>> \/ cfg.waitForInteraction

\* new ViewabilityHelper(cfg), lines 76-82
construct(cfg) ==
    /\ status = "new"
    /\ IF constructorAccepts(cfg)
       THEN status' = "ready" /\ config' = cfg
       ELSE status' = "rejected" /\ UNCHANGED config
    /\ lastOp' = Op("construct", status', 0)
    /\ UNCHANGED <<hasInteracted, lastUpdateTime, timers, viewableIndices, viewableItems,
                   now, scheduled, nextHandle, emitted, notified, disposed, cancelled,
                   since, shown, brief, seenHead, consumer, probe>>

\* dispose(), lines 87-89: every handle of this._timers goes to clearTimeout;
\* the set itself is left as it is
\* a dispose that clears nothing
clearedByNothing(handles, pending) == pending

clearedBy(handles, pending) == {t \in pending : t.handle \notin handles}

dispose ==
    /\ status = "ready"
    /\ scheduled' = clearedBy(timers, scheduled)
    /\ cancelled' = cancelled \cup timers
    /\ disposed' = TRUE
    /\ emitted' = <<>> /\ UNCHANGED notified
    /\ lastOp' = Op("dispose", "done", 0)
    /\ UNCHANGED <<status, config, hasInteracted, lastUpdateTime, timers, viewableIndices,
                   viewableItems, now, nextHandle, since, shown, brief, seenHead,
                   consumer, probe>>

\* recordInteraction(), lines 215-217
recordInteraction ==
    /\ status = "ready"
    /\ hasInteracted' = TRUE
    /\ emitted' = <<>> /\ UNCHANGED notified
    /\ lastOp' = Op("recordInteraction", "done", 0)
    /\ UNCHANGED <<status, config, lastUpdateTime, timers, viewableIndices, viewableItems,
                   now, scheduled, nextHandle, disposed, cancelled, since, shown, brief,
                   seenHead, consumer, probe>>

\* onUpdate(...), lines 151-210
onUpdate(itemCount, scrollOffset, viewportHeight, frames, keys, renderRange) ==
    /\ status = "ready"
    /\ LET updateTime == now
           latched == latchTime(updateTime, frames)
           updateElapsed == elapsedOf(latched, updateTime)
           interacted == interactionAfter(config, hasInteracted, scrollOffset, updateElapsed)
           computed == computeViewableItems(config, itemCount, scrollOffset, viewportHeight,
                                            frames, renderRange)
           done == onUpdateSync(computed, computed, viewableItems, keys)
       IN  /\ hasInteracted' = interacted
           /\ IF suppressed(config, interacted)
              THEN /\ lastUpdateTime' = latched
                   /\ emitted' = <<>> /\ UNCHANGED notified
                   /\ lastOp' = Op("onUpdate", "suppressed", scrollOffset)
                   /\ UNCHANGED <<timers, viewableIndices, viewableItems, scheduled,
                                  nextHandle, since, shown, brief>>
              ELSE IF itemCount # 0 /\ computeThrows(config, itemCount, renderRange)
              THEN /\ lastUpdateTime' = latched
                   /\ emitted' = <<>> /\ UNCHANGED notified
                   /\ lastOp' = Op("onUpdate", "threw", scrollOffset)
                   /\ UNCHANGED <<timers, viewableIndices, viewableItems, scheduled,
                                  nextHandle, since, shown, brief>>
              ELSE IF sameIndices(viewableIndices, computed)
              THEN /\ lastUpdateTime' = latched
                   /\ emitted' = <<>> /\ UNCHANGED notified
                   /\ lastOp' = Op("onUpdate", "unchanged", scrollOffset)
                   /\ UNCHANGED <<timers, viewableIndices, viewableItems, scheduled,
                                  nextHandle, since, shown, brief>>
              ELSE IF debounced(config, updateElapsed)
              THEN /\ nextHandle <= MaxHandles
                   /\ viewableIndices' = computed
                   /\ lastUpdateTime' = updateTime
                   /\ scheduled' = scheduled \cup
                         {[handle |-> nextHandle, due |-> now + config.minViewTime[1],
                           indices |-> computed, keys |-> keys]}
                   /\ timers' = timers \cup {nextHandle}
                   /\ nextHandle' = nextHandle + 1
                   /\ emitted' = <<>> /\ UNCHANGED notified
                   /\ lastOp' = Op("onUpdate", "deferred", scrollOffset)
                   /\ observe(computed, <<>>)
                   /\ UNCHANGED viewableItems
              ELSE /\ viewableIndices' = computed
                   /\ lastUpdateTime' = updateTime
                   /\ viewableItems' = done.items
                   /\ emitted' = done.calls /\ notified' = (notified \/ done.calls # <<>>)
                   /\ lastOp' = Op("onUpdate", "finalized", scrollOffset)
                   /\ observe(computed, done.calls)
                   /\ UNCHANGED <<timers, scheduled, nextHandle>>
    /\ seenHead' = (seenHead \/ getFrameMetrics(frames, 0) # <<>>)
    /\ consumer' = heard(consumer, emitted')
    /\ UNCHANGED <<status, config, now, disposed, cancelled, probe>>

\* the timer the host runs next: the earliest due, the oldest among equals.
\* Every timer of a helper has the same delay, so this is the order of the
\* setTimeout calls.
nextDue(pending) ==
    CHOOSE t \in pending :
        \A u \in pending : t.due < u.due \/ (t.due = u.due /\ t.handle <= u.handle)

\* the setTimeout callback of lines 200-203.  It runs in a later turn of the
\* event loop than the update that scheduled it, and the code puts no other
\* condition on when: the due time is nominal.  The host measures the delay on
\* its own clock, not on the Date.now() the update read, so the callback can
\* find Date.now() below the due time as well as above it.
timerFires ==
    /\ status = "ready"
    /\ scheduled # {}
    /\ LET t == nextDue(scheduled)
           done == onUpdateSync(t.indices, viewableIndices, viewableItems, t.keys)
       IN  /\ scheduled' = scheduled \ {t}
           /\ timers' = timers \ {t.handle}
           /\ viewableItems' = done.items
           /\ emitted' = done.calls /\ notified' = (notified \/ done.calls # <<>>)
           /\ lastOp' = Op("timer", "finalized", 0)
           /\ observe(viewableIndices, done.calls)
    /\ consumer' = heard(consumer, emitted')
    /\ UNCHANGED <<status, config, hasInteracted, lastUpdateTime, viewableIndices, now,
                   nextHandle, disposed, cancelled, seenHead, probe>>

\* a millisecond passes, with or without setTimeout callbacks waiting for the
\* event loop
advance ==
    /\ status = "ready"
    /\ now < MaxTime
    /\ now' = now + 1
    /\ emitted' = <<>> /\ UNCHANGED notified
    /\ lastOp' = Op("advance", "done", 0)
    /\ UNCHANGED <<status, config, hasInteracted, lastUpdateTime, timers, viewableIndices,
                   viewableItems, scheduled, nextHandle, disposed, cancelled, since,
                   shown, brief, seenHead, consumer, probe>>

Next ==
    \/ \E cfg \in Configs : construct(cfg)
    \/ \E u \in Updates :
            onUpdate(u.itemCount, u.scrollOffset, u.viewportHeight, u.frames, u.keys,
                     u.renderRange)
    \/ recordInteraction
    \/ dispose
    \/ advance

\* The helper under the configurations that never schedule a timer: none of
\* them carries minViewTime, so line 199 is not reached, the host's timer queue
\* stays empty and no timer callback can run.
Spec == Init /\ [][Next]_vars

NextTimed ==
    \/ \E cfg \in TimedConfigs : construct(cfg)
    \/ \E u \in TimedUpdates :
            onUpdate(u.itemCount, u.scrollOffset, u.viewportHeight, u.frames, u.keys,
                     u.renderRange)
    \/ recordInteraction
    \/ dispose
    \/ timerFires
    \/ advance

\* The helper under the configurations that debounce.
SpecTimed == Init /\ [][NextTimed]_vars

\* a direct call of _isViewable (lines 251-266) on an item of the given top and
\* length; a run makes one such call
isViewableCall(mode, threshold, top, viewportHeight, itemLength) ==
    /\ probe.method = "none"
    /\ probe' = [method |-> "isViewable", viewAreaMode |-> mode, threshold |-> threshold,
                 top |-> top, bottom |-> top + itemLength,
                 viewportHeight |-> viewportHeight, itemLength |-> itemLength,
                 result |-> isViewable(mode, threshold, top, top + itemLength,
                                       viewportHeight, itemLength)]
    /\ UNCHANGED helperVars

NextGeom ==
    /\ probe.method = "none"
    /\ \E mode \in BOOLEAN, threshold \in GeomThresholds, top \in GeomTops,
          viewportHeight \in GeomViewports, itemLength \in GeomLengths :
           isViewableCall(mode, threshold, top, viewportHeight, itemLength)

\* The geometric test on its own.
SpecGeom == Init /\ [][NextGeom]_vars

\* a direct call of computeViewableItems (lines 94-145) that passes both
\* invariants; a run makes one such call
computeViewableItemsCall(cfg, itemCount, scrollOffset, viewportHeight, frames, renderRange) ==
    /\ probe.method = "none"
    /\ ~computeThrows(cfg, itemCount, renderRange)
    /\ probe' = [method |-> "computeViewableItems", config |-> cfg,
                 itemCount |-> itemCount, scrollOffset |-> scrollOffset,
                 viewportHeight |-> viewportHeight, frames |-> frames,
                 range |-> rangeOf(itemCount, renderRange),
                 result |-> computeViewableItems(cfg, itemCount, scrollOffset,
                                                 viewportHeight, frames, renderRange),
                 lookups |-> lookupsOf(itemCount, scrollOffset, viewportHeight, frames,
                                       renderRange)]
    /\ UNCHANGED helperVars

NextScan ==
    /\ probe.method = "none"
    /\ \E cfg \in ScanConfigs, itemCount \in 0 .. ScanItems, scrollOffset \in ScanOffsets,
          viewportHeight \in ViewportHeights, frames \in ContiguousLayouts :
           \E renderRange \in ScanRanges(itemCount) :
               computeViewableItemsCall(cfg, itemCount, scrollOffset, viewportHeight,
                                        frames, renderRange)

\* The range scan on its own, over contiguous layouts.
SpecScan == Init /\ [][NextScan]_vars

\* ================================================================== claims
keysOf(items) == {items[i].key : i \in 1 .. Len(items)}

\* the elapsed time an update made now would measure (line 165)
elapsedNow == elapsedOf(lastUpdateTime, now)

bothOrNeither(cfg) ==
    (cfg.viewAreaCoveragePercentThreshold # <<>>) = (cfg.itemVisiblePercentThreshold # <<>>)

changedSequence == lastOp'.name = "onUpdate" /\ lastOp'.outcome \in {"deferred", "finalized"}

\* C1: with a minimum view time in effect, an item that enters the viewable
\* index sequence and leaves it again in less than that time is never reported
\* to the consumer as viewable.
C1_BriefItemNeverReported == ~brief

\* C2: when the configuration sets minimumViewTime and an update changes the
\* viewable index sequence with elapsed < minimumViewTime, the update invokes no
\* callback and schedules exactly one deferred finalize, tracked in the timer set.
C2_EarlyChangeIsDeferred ==
    [][(Truthy(config.minimumViewTime) /\ changedSequence
            /\ elapsedNow < config.minimumViewTime[1])
        => /\ emitted' = <<>>
           /\ timers' = timers \cup {nextHandle}
           /\ Cardinality(scheduled') = Cardinality(scheduled) + 1]_vars

\* C3: with minimumViewTime configured, after updates followed by a dispose
\* that comes before minimumViewTime has elapsed (the clock starts at 1), the
\* callback has been invoked zero times.
C3_DisposeBeforeViewTimeIsSilent ==
    (Truthy(config.minimumViewTime) /\ lastOp.name = "dispose"
        /\ now - 1 < config.minimumViewTime[1])
    => ~notified

\* C4 as stated: after dispose has been called, the callback is never invoked
\* again, whatever operations follow.
C4_SilentAfterDispose == [][disposed => emitted' = <<>>]_vars

\* C4 as amended: a timer that was pending when dispose was called never runs
\* its finalize; the handle of every timer that fires was never cleared.
C4_ClearedTimersNeverFire ==
    [][lastOp'.name = "timer" => (timers \ timers') \cap cancelled = {}]_vars

\* a timer scheduled after a dispose that cleared another one fires and notifies
C4_Witness == cancelled # {} /\ lastOp.name = "timer" /\ emitted # <<>>

\* C5: while waitForInteraction is configured and no interaction is latched,
\* the callback has never been invoked, no timer is scheduled, and both the
\* viewable indices and the committed items are empty.
C5_GateClosedReportsNothing ==
    (status = "ready" /\ config.waitForInteraction /\ ~hasInteracted)
    => /\ ~notified /\ emitted = <<>>
       /\ timers = {} /\ scheduled = {}
       /\ viewableIndices = <<>> /\ viewableItems = <<>>

\* a scrolled update that the filter kept from latching was suppressed, under a
\* configuration that debounces
C5_Witness ==
    /\ config.waitForInteraction /\ ~hasInteracted /\ Truthy(config.minViewTime)
    /\ lastOp.name = "onUpdate" /\ lastOp.outcome = "suppressed" /\ lastOp.scrollOffset # 0

\* C6: hasInteracted is a one-way latch: no step resets it, recordInteraction
\* sets it, and with waitForInteraction and no filter an update sets it exactly
\* when its scroll offset is not zero.
C6_InteractionLatch ==
    [][/\ hasInteracted => hasInteracted'
       /\ lastOp'.name = "recordInteraction" => hasInteracted'
       /\ (lastOp'.name = "onUpdate" /\ config.waitForInteraction
              /\ config.scrollInteractionFilter = <<>> /\ ~hasInteracted)
          => (hasInteracted' <=> lastOp'.scrollOffset # 0)]_vars

\* a zero-offset update after the latch was set by scrolling leaves it set
C6_Witness ==
    /\ config.waitForInteraction /\ config.scrollInteractionFilter = <<>>
    /\ hasInteracted /\ lastOp.name = "onUpdate" /\ lastOp.scrollOffset = 0
    /\ viewableIndices # <<>>

\* C7: an update whose computed index sequence is identical to the current
\* one invokes no callback.
C7_SameSequenceIsSilent ==
    [][(lastOp'.name = "onUpdate"
            /\ lastOp'.outcome \in {"unchanged", "deferred", "finalized"}
            /\ viewableIndices' = viewableIndices)
        => emitted' = <<>>]_vars

\* a second update computing the same non-empty sequence
C7_Witness ==
    /\ lastOp.name = "onUpdate" /\ lastOp.outcome = "unchanged"
    /\ viewableIndices # <<>> /\ viewableItems # <<>> /\ emitted = <<>>

\* C8: a notification's changed list is the tokens whose key is new (flagged
\* true, in the order of the new mapping) followed by the committed tokens
\* whose key is gone (flagged false), and its viewableItems is the new mapping.
C8_DiffByKey ==
    [][emitted' # <<>> =>
        LET call == emitted'[1]
            appeared == {n \in 1 .. Len(call.changed) : call.changed[n].isViewable}
            gone == {n \in 1 .. Len(call.changed) : ~call.changed[n].isViewable}
        IN  /\ call.viewableItems = viewableItems'
            /\ \A n \in 1 .. Len(call.viewableItems) :
                   /\ call.viewableItems[n].isViewable
                   /\ call.viewableItems[n].index \in Range(viewableIndices')
            /\ {call.changed[n].key : n \in appeared}
                   = keysOf(call.viewableItems) \ keysOf(viewableItems)
            /\ {call.changed[n].key : n \in gone}
                   = keysOf(viewableItems) \ keysOf(call.viewableItems)
            /\ \A n \in appeared : call.changed[n] \in Range(call.viewableItems)
            /\ \A n \in gone :
                   [call.changed[n] EXCEPT !.isViewable = TRUE] \in Range(viewableItems)
            /\ \A m \in appeared, n \in gone : m < n
            /\ \A m, n \in appeared :
                   m < n => \E i, j \in 1 .. Len(call.viewableItems) :
                                /\ i < j
                                /\ call.viewableItems[i] = call.changed[m]
                                /\ call.viewableItems[j] = call.changed[n]
            /\ \A m, n \in gone :
                   m < n => \E i, j \in 1 .. Len(viewableItems) :
                                /\ i < j
                                /\ viewableItems[i].key = call.changed[m].key
                                /\ viewableItems[j].key = call.changed[n].key
            /\ \A m, n \in 1 .. Len(call.changed) :
                   m # n => call.changed[m].key # call.changed[n].key]_vars

\* committed {a}, new {b}: changed = [b true, a false], viewableItems = [b]
C8_Witness ==
    /\ emitted # <<>>
    /\ emitted[1].changed = <<[key |-> "b", index |-> 1, isViewable |-> TRUE],
                              [key |-> "a", index |-> 0, isViewable |-> FALSE]>>
    /\ emitted[1].viewableItems = <<[key |-> "b", index |-> 1, isViewable |-> TRUE]>>

\* C9: a finalize invokes the callback at most once and only with a non-empty
\* changed list; the committed items are replaced by the new mapping when the
\* callback is invoked and are left as they were when it is not.
C9_NotifyOnlyOnChange ==
    [][/\ Len(emitted') <= 1
       /\ emitted' # <<>> =>
              /\ emitted'[1].changed # <<>>
              /\ viewableItems' = emitted'[1].viewableItems
       /\ emitted' = <<>> => viewableItems' = viewableItems]_vars

\* a deferred finalize whose change list was empty: it made no call and left
\* the committed items in place
C9_Witness == lastOp.name = "timer" /\ emitted = <<>> /\ viewableItems # <<>>

\* C10: a configuration with both or neither threshold set is rejected when
\* the helper is constructed.
C10_RejectedAtConstruction == status = "ready" => ~bothOrNeither(config)

\* the updates whose render range ends at or beyond the item count
BadRangeUpdates ==
    {u \in Updates : u.renderRange # <<>> /\ u.renderRange[1].last >= u.itemCount}

\* C11 as stated: every update supplied with a render range whose last is at
\* or beyond the item count raises, whatever the item count, and makes no call.
C11_AlwaysRaises ==
    [][\A u \in BadRangeUpdates :
          onUpdate(u.itemCount, u.scrollOffset, u.viewportHeight, u.frames, u.keys,
                   u.renderRange)
          => (lastOp'.outcome = "threw" /\ emitted' = <<>>)]_vars

\* C11 as amended: with a non-zero item count such a range makes
\* computeViewableItems raise, and an update that passes the interaction gate
\* raises with it, makes no call and commits nothing; with an item count of 0
\* the update never raises, whatever the range.
C11_RaisesForNonEmptyList ==
    [][\A u \in BadRangeUpdates :
          onUpdate(u.itemCount, u.scrollOffset, u.viewportHeight, u.frames, u.keys,
                   u.renderRange)
          => /\ u.itemCount # 0 => computeThrows(config, u.itemCount, u.renderRange)
             /\ (u.itemCount # 0 /\ ~(config.waitForInteraction /\ ~hasInteracted'))
                => /\ lastOp'.outcome = "threw" /\ emitted' = <<>>
                   /\ viewableIndices' = viewableIndices
                   /\ viewableItems' = viewableItems
             /\ u.itemCount = 0 => lastOp'.outcome # "threw"]_vars

\* an update under a well-formed configuration raised: the range check failed
C11_Witness ==
    /\ status = "ready" /\ thresholdsValid(config)
    /\ lastOp.name = "onUpdate" /\ lastOp.outcome = "threw"

\* C12: the geometric test agrees with its reference: an item is viewable iff
\* it is entirely visible or 100 * max(0, min(bottom, viewportHeight) -
\* max(top, 0)) >= threshold * d, with d the viewport height in view-area mode
\* and the item length in item-visible mode.
C12_AgreesWithReference ==
    probe.method = "isViewable" =>
        LET top == probe.top
            bottom == probe.bottom
            h == probe.viewportHeight
            d == IF probe.viewAreaMode THEN h ELSE probe.itemLength
            lower == IF top > 0 THEN top ELSE 0
            upper == IF bottom < h THEN bottom ELSE h
            overlap == IF upper > lower THEN upper - lower ELSE 0
            entire == top >= 0 /\ bottom <= h /\ bottom > top
        IN  probe.result <=> (entire \/ 100 * overlap >= probe.threshold * d)

\* C13: a deferred finalize never discards an item that is still viewable and
\* already reported: a token of committedViewableItems whose index is in
\* currentViewableIndices when a timer's finalize runs stays committed and is
\* not reported with isViewable = false by that finalize.
C13_StaleFinalizeKeepsCurrent ==
    [][lastOp'.name = "timer" =>
        \A tok \in Range(viewableItems) :
            tok.index \in Range(viewableIndices)
            => /\ hasKey(viewableItems', tok.key)
               /\ \A c \in 1 .. Len(emitted') :
                      \A ch \in Range(emitted'[c].changed) :
                          ~(ch.key = tok.key /\ ~ch.isViewable)]_vars

\* C14: whenever no debounce timer is pending, the interaction gate is open
\* and the helper has not been disposed, the keys of committedViewableItems
\* are the keys of the tokens of currentViewableIndices.
C14_QuiescentCommittedIsCurrent ==
    (/\ status = "ready" /\ ~disposed
     /\ scheduled = {}
     /\ ~suppressed(config, hasInteracted))
    => keysOf(viewableItems) = {StableKeys[i] : i \in Range(viewableIndices)}

\* C15 as stated: an update suppressed by interaction gating mutates no
\* tracker state: hasInteracted, lastUpdateTime, pendingTimers,
\* currentViewableIndices and committedViewableItems are unchanged, and neither
\* the scan nor the callback runs.
C15_SuppressedMutatesNothing ==
    [][(lastOp'.name = "onUpdate" /\ config.waitForInteraction /\ ~hasInteracted')
       => /\ hasInteracted' = hasInteracted
          /\ lastUpdateTime' = lastUpdateTime
          /\ timers' = timers /\ scheduled' = scheduled
          /\ viewableIndices' = viewableIndices
          /\ viewableItems' = viewableItems
          /\ emitted' = <<>> /\ lastOp'.outcome # "threw"]_vars

\* C15 as amended: such an update changes nothing but lastUpdateTime, and
\* that only by the first-frame latch: from 0 to the time of the update, when
\* the first item has a frame.
C15_SuppressedOnlyLatches ==
    [][(lastOp'.name = "onUpdate" /\ config.waitForInteraction /\ ~hasInteracted')
       => /\ hasInteracted' = hasInteracted
          /\ \/ lastUpdateTime' = lastUpdateTime
             \/ lastUpdateTime = 0 /\ lastUpdateTime' = now /\ seenHead'
          /\ timers' = timers /\ scheduled' = scheduled
          /\ viewableIndices' = viewableIndices
          /\ viewableItems' = viewableItems
          /\ emitted' = <<>> /\ lastOp'.outcome = "suppressed"]_vars

\* a suppressed update after which the time is latched: every update so far
\* was suppressed, so one of them latched it
C15_Witness ==
    /\ lastOp.name = "onUpdate" /\ lastOp.outcome = "suppressed"
    /\ lastUpdateTime # 0

\* C16 as stated: lastUpdateTime is 0 until an onUpdate has been made with a
\* frame for item 0, even if an earlier update changed the viewable sequence.
C16_ZeroUntilHeadMeasured == ~seenHead => lastUpdateTime = 0

\* C16 as amended: lastUpdateTime is 0 until an onUpdate is made with a frame
\* for item 0 or changes the viewable sequence; the update that first makes it
\* non-zero is of one of these two kinds and sets it to its own time.
C16_ZeroUntilHeadOrChange ==
    [][/\ lastUpdateTime = 0 => ~seenHead
       /\ (lastUpdateTime = 0 /\ lastUpdateTime' # 0)
          => /\ lastOp'.name = "onUpdate" /\ lastUpdateTime' = now
             /\ seenHead' \/ viewableIndices' # viewableIndices]_vars

\* the time was set by an update that changed the sequence while no update
\* had seen a frame for item 0
C16_Witness ==
    status = "ready" /\ ~seenHead /\ lastUpdateTime # 0 /\ viewableIndices # <<>>

\* C17 as stated: an update that hits the no-op short-circuit leaves the
\* tracker state unchanged: lastUpdateTime, pendingTimers,
\* currentViewableIndices and committedViewableItems.
C17_NoOpMutatesNothing ==
    [][(lastOp'.name = "onUpdate" /\ lastOp'.outcome = "unchanged")
       => /\ lastUpdateTime' = lastUpdateTime
          /\ timers' = timers /\ scheduled' = scheduled
          /\ viewableIndices' = viewableIndices
          /\ viewableItems' = viewableItems
          /\ emitted' = <<>>]_vars

\* C17 as amended: such an update adds no timer, makes no call and leaves
\* currentViewableIndices and committedViewableItems unchanged; lastUpdateTime
\* is unchanged unless it was 0 and the first item has a frame, and then it
\* becomes the time of the update.
C17_NoOpOnlyLatches ==
    [][(lastOp'.name = "onUpdate" /\ lastOp'.outcome = "unchanged")
       => /\ IF lastUpdateTime = 0 /\ seenHead'
             THEN lastUpdateTime' = now
             ELSE lastUpdateTime' = lastUpdateTime
          /\ timers' = timers /\ scheduled' = scheduled /\ nextHandle' = nextHandle
          /\ viewableIndices' = viewableIndices
          /\ viewableItems' = viewableItems
          /\ emitted' = <<>>]_vars

\* a no-op update latched the time: nothing was ever viewable or committed
C17_Witness ==
    /\ lastOp.name = "onUpdate" /\ lastOp.outcome = "unchanged"
    /\ lastUpdateTime = now /\ viewableIndices = <<>> /\ ~notified

\* the indices a scan of the whole range returns: measured, overlapping the
\* viewport and passing the viewability test, in ascending order
fullScan(cfg, range, scrollOffset, viewportHeight, frames) ==
    LET qualifies(i) ==
            /\ getFrameMetrics(frames, i) # <<>>
            /\ LET top == getFrameMetrics(frames, i)[1].offset - scrollOffset
                   bottom == top + getFrameMetrics(frames, i)[1].length
               IN  /\ top < viewportHeight /\ bottom > 0
                   /\ isViewable(viewAreaMode(cfg), viewablePercentThreshold(cfg)[1],
                                 top, bottom, viewportHeight,
                                 getFrameMetrics(frames, i)[1].length)
    IN  SelectSeq([n \in 1 .. (IF range.last >= range.first
                               THEN range.last - range.first + 1 ELSE 0) |->
                      range.first + n - 1],
                  qualifies)

\* C18: over contiguous, monotonically ordered layouts with some items
\* unmeasured, computeViewableItems with its early exit returns the indices a
\* scan of the whole range returns; with an item count of 0 it returns the
\* empty sequence and makes no getFrameMetrics call.
C18_EarlyExitIsFullScan ==
    probe.method = "computeViewableItems" =>
        /\ probe.itemCount # 0 =>
               probe.result = fullScan(probe.config, probe.range, probe.scrollOffset,
                                       probe.viewportHeight, probe.frames)
        /\ probe.itemCount = 0 => (probe.result = <<>> /\ probe.lookups = <<>>)

\* a call that passed an unmeasured item, reported an item after it and left
\* the loop before the end of the range
C18_Witness ==
    /\ probe.method = "computeViewableItems"
    /\ Len(probe.lookups) < probe.range.last - probe.range.first + 1
    /\ \E i \in Range(probe.lookups), j \in Range(probe.result) :
           getFrameMetrics(probe.frames, i) = <<>> /\ i < j

\* C19: with waitForInteraction and a scrollInteractionFilter, an update made
\* before any interaction sets hasInteracted iff its scroll offset is not zero,
\* is at least minimumOffset when that is set, and the time since
\* lastUpdateTime (0 when lastUpdateTime is unset) is at least minimumElapsed
\* when that is set.
C19_FilterLatch ==
    [][(/\ lastOp'.name = "onUpdate" /\ config.waitForInteraction
        /\ config.scrollInteractionFilter # <<>> /\ ~hasInteracted)
       => LET minimumOffset == config.scrollInteractionFilter[1].minimumOffset
              minimumElapsed == config.scrollInteractionFilter[1].minimumElapsed
              elapsed == IF lastUpdateTime = 0 THEN 0 ELSE now - lastUpdateTime
          IN  hasInteracted' <=>
                 /\ lastOp'.scrollOffset # 0
                 /\ minimumOffset # <<>> => lastOp'.scrollOffset >= minimumOffset[1]
                 /\ minimumElapsed # <<>> => elapsed >= minimumElapsed[1]]_vars

\* both conditions configured: an update whose offset reaches minimumOffset
\* came too early and was suppressed
C19_Witness ==
    /\ config.waitForInteraction /\ config.scrollInteractionFilter # <<>>
    /\ config.scrollInteractionFilter[1].minimumOffset = <<2>>
    /\ config.scrollInteractionFilter[1].minimumElapsed = <<1>>
    /\ lastOp.name = "onUpdate" /\ lastOp.outcome = "suppressed"
    /\ lastOp.scrollOffset = 2

\* C20: the notification stream is self-consistent: a consumer that applies
\* each changed list to the set it holds, starting from the empty set, holds
\* the keys of that notification's viewableItems, which are the keys of
\* committedViewableItems; a key is reported viewable only when the consumer
\* does not hold it and not viewable only when it does.
C20_StreamIsConsistent ==
    [][/\ consumer = keysOf(viewableItems)
       /\ consumer' = keysOf(viewableItems')
       /\ \A c \in 1 .. Len(emitted') :
              /\ keysOf(emitted'[c].viewableItems) = consumer'
              /\ \A t \in Range(emitted'[c].changed) :
                     IF t.isViewable THEN t.key \notin consumer ELSE t.key \in consumer]_vars

\* a deferred finalize reported a key not viewable, and the consumer holds a
\* key after it
C20_Witness ==
    /\ lastOp.name = "timer" /\ emitted # <<>>
    /\ \E t \in Range(emitted[1].changed) : ~t.isViewable
    /\ consumer # {}

====
